---- MODULE Spec2Model ----
(***************************************************************************)
(* Capsule layers with dynamic routing (models/layers/capsule_utils.py)    *)
(* and the SVHN input pipeline (input_data/svhn/svhn_input.py).            *)
(*                                                                         *)
(* Tensors are records [shape, val]: shape is the sequence of axis sizes,  *)
(* val the sequence of the numbers in row-major order.  Numbers are pairs  *)
(* <<n, d>> standing for n/d; d = 0 is a non-finite value: <<1, 0>> and    *)
(* <<-1, 0>> are the infinities, <<0, 0>> is NaN.  Arithmetic is fixed     *)
(* point: every result is rounded to the nearest multiple of 1/Scale, the  *)
(* way float32 rounds to its own, finer grid; the roundings add up, so a   *)
(* value of the routing lies within a few multiples of 1/Scale (less than  *)
(* 1/128 on the calls made here) of the float32 value and is finite,       *)
(* infinite or NaN where that is.  Only softmax keeps its quotient w/W     *)
(* unrounded, so that its sums can be compared exactly.                    *)
(*                                                                         *)
(* A layer call builds its part of the graph and returns a tensor; nothing *)
(* is computed until that tensor is evaluated.  Calls and runs are         *)
(* separate actions: any number of layers may be built before one is run.  *)
(***************************************************************************)
EXTENDS Integers, Sequences, FiniteSets, TLC

\* ------------------------------------------------------------ bounds
Scale == 1024         \* fixed-point resolution: values are multiples of 1/Scale
MaxRouting == 2       \* largest num_routing a call is given
MaxCalls == 2         \* layer calls made on one graph
MaxRank == 6          \* largest rank of a votes tensor handed to _update_routing
MaxBatch == 3         \* largest total_batch_size given to inputs
MaxGpus == 2          \* largest num_gpus given to inputs
MaxEpochs == 2        \* largest max_epochs given to inputs
MaxImages == 3        \* largest number of images in a split

\* ------------------------------------------------------------ numbers
NaN == <<0, 0>>
Inf(s) == <<s, 0>>
Fix(n) == <<n, Scale>>
Zero == Fix(0)
One == Fix(Scale)
Finite(x) == x[2] # 0
Abs(n) == IF n < 0 THEN -n ELSE n
Sgn(n) == IF n < 0 THEN -1 ELSE IF n > 0 THEN 1 ELSE 0

\* n/m rounded to the nearest integer, halves away from zero (m > 0).
RoundDiv(n, m) == Sgn(n) * ((2 * Abs(n) + m) \div (2 * m))

\* n/d rounded to the nearest multiple of 1/Scale (d > 0).
Round(n, d) ==
    IF d % Scale = 0 THEN <<RoundDiv(n, d \div Scale), Scale>>
    ELSE <<RoundDiv(n * Scale, d), Scale>>

\* IEEE addition: inf + (-inf) is NaN, inf + x is inf.
NAdd(x, y) ==
    IF x = NaN \/ y = NaN THEN NaN
    ELSE IF ~Finite(x) /\ ~Finite(y) THEN (IF x = y THEN x ELSE NaN)
    ELSE IF ~Finite(x) THEN x
    ELSE IF ~Finite(y) THEN y
    ELSE IF x[2] = y[2] THEN Round(x[1] + y[1], x[2])
    ELSE Round(x[1] * y[2] + y[1] * x[2], x[2] * y[2])

\* IEEE multiplication: inf * 0 is NaN, inf * x is an infinity.
NMul(x, y) ==
    IF x = NaN \/ y = NaN THEN NaN
    ELSE IF ~Finite(x) \/ ~Finite(y)
         THEN (IF x[1] = 0 \/ y[1] = 0 THEN NaN ELSE Inf(Sgn(x[1]) * Sgn(y[1])))
    ELSE Round(x[1] * y[1], x[2] * y[2])

\* IEEE division: 0/0 and inf/inf are NaN, x/0 and inf/x are infinities,
\* x/inf is 0.
NDiv(x, y) ==
    IF x = NaN \/ y = NaN THEN NaN
    ELSE IF ~Finite(x) /\ ~Finite(y) THEN NaN
    ELSE IF ~Finite(x) THEN Inf(IF y[1] < 0 THEN -x[1] ELSE x[1])
    ELSE IF ~Finite(y) THEN Zero
    ELSE IF y[1] = 0 THEN (IF x[1] = 0 THEN NaN ELSE Inf(Sgn(x[1])))
    ELSE Round(x[1] * y[2] * Sgn(y[1]), x[2] * Abs(y[1]))

\* Floor of the square root of a natural number, by bisection of lo..hi.
RECURSIVE SqrtIn(_, _, _)
SqrtIn(m, lo, hi) ==
    IF lo >= hi THEN lo
    ELSE LET mid == (lo + hi + 1) \div 2
         IN  IF mid * mid <= m THEN SqrtIn(m, mid, hi) ELSE SqrtIn(m, lo, mid - 1)

ISqrt(m) == SqrtIn(m, 0, IF m < 46340 THEN m ELSE 46340)

\* The square root of a natural number rounded to the nearest integer.
NSqrt(m) == LET r == ISqrt(m) IN IF m - r * r > r THEN r + 1 ELSE r

\* The exponential is computed to a sixteenth of the resolution of the values.
Guard == 16 * Scale

\* exp(-f/g) in units of 1/g for 0 <= f <= g: the series
\* 1 - f(1 - f/2 (1 - f/3 (...))), cut after the term of index 12.
RECURSIVE ExpSeries(_, _, _)
ExpSeries(f, g, k) ==
    IF k > 12 THEN g ELSE g - RoundDiv(f * ExpSeries(f, g, k + 1), g * k)

\* v * e^n in units of 1/g, e given in units of 1/g.
RECURSIVE PowMul(_, _, _, _)
PowMul(v, e, n, g) ==
    IF n = 0 \/ v = 0 THEN v ELSE PowMul(RoundDiv(v * e, g), e, n - 1, g)

\* exp(-t/g) in units of 1/g for t >= 0: exp(-1)^floor(t/g) * exp(-frac).
ExpNeg(t, g) == PowMul(ExpSeries(t % g, g, 1), ExpSeries(g, g, 1), t \div g, g)

\* exp((q - m)/Scale) in units of 1/Scale for q <= m: the exponential as
\* softmax takes it, of a logit less the largest logit of its group.
ExpShifted(q, m) ==
    RoundDiv(ExpNeg((m - q) * (Guard \div Scale), Guard), Guard \div Scale)

\* ------------------------------------------------------------ tensors
RECURSIVE Prod(_)
Prod(s) == IF s = <<>> THEN 1 ELSE Head(s) * Prod(Tail(s))

\* Row-major position (0-based) of an index tuple, and back.
RECURSIVE Lin(_, _)
Lin(idx, shape) ==
    IF shape = <<>> THEN 0
    ELSE (Head(idx) - 1) * Prod(Tail(shape)) + Lin(Tail(idx), Tail(shape))

RECURSIVE Unlin(_, _)
Unlin(l, shape) ==
    IF shape = <<>> THEN <<>>
    ELSE <<(l \div Prod(Tail(shape))) + 1>>
         \o Unlin(l % Prod(Tail(shape)), Tail(shape))

\* A failed op: the shape <<-1>> and no values.
ErrShape == <<-1>>
ErrT == [shape |-> ErrShape, val |-> <<>>]
IsErr(T) == T.shape = ErrShape

\* The number at index tuple idx (1-based) of tensor T.
At(T, idx) == T.val[Lin(idx, T.shape) + 1]

RECURSIVE SumSeq(_)
\* Sum of a sequence of numbers, left to right, in the tensor arithmetic.
SumSeq(xs) ==
    IF xs = <<>> THEN Zero
    ELSE NAdd(SumSeq(SubSeq(xs, 1, Len(xs) - 1)), xs[Len(xs)])

\* Size of axis k of shape s when s is right-aligned in rank r.
DimAt(s, k, r) == IF k <= r - Len(s) THEN 1 ELSE s[k - (r - Len(s))]
Max(a, b) == IF a >= b THEN a ELSE b

\* numpy broadcasting of two shapes.
BroadcastShape(s1, s2) ==
    LET r == Max(Len(s1), Len(s2))
    IN  IF s1 = ErrShape \/ s2 = ErrShape THEN ErrShape
        ELSE IF \E k \in 1..r : DimAt(s1, k, r) # DimAt(s2, k, r)
                                /\ DimAt(s1, k, r) # 1 /\ DimAt(s2, k, r) # 1
             THEN ErrShape
             ELSE [k \in 1..r |-> Max(DimAt(s1, k, r), DimAt(s2, k, r))]

\* The index into a tensor of shape s that index idx of the broadcast result reads.
Proj(idx, s) ==
    [k \in 1..Len(s) |-> IF s[k] = 1 THEN 1 ELSE idx[k + (Len(idx) - Len(s))]]

\* The elementwise operators *, + and / of two numbers.
NOp(op, x, y) ==
    CASE op = "*" -> NMul(x, y)
      [] op = "+" -> NAdd(x, y)
      [] op = "/" -> NDiv(x, y)

\* An elementwise operator on two tensors, with broadcasting.
BinOp(A, B, op) ==
    LET s == BroadcastShape(A.shape, B.shape)
    IN  IF s = ErrShape THEN ErrT
        ELSE [shape |-> s,
              val |-> [l \in 1..Prod(s) |-> LET idx == Unlin(l - 1, s) IN
                          NOp(op, At(A, Proj(idx, A.shape)), At(B, Proj(idx, B.shape)))]]

TMul(A, B) == BinOp(A, B, "*")
TAdd(A, B) == BinOp(A, B, "+")
TDiv(A, B) == BinOp(A, B, "/")

\* tf.fill / tf.zeros_like
Fill(shape, v) == [shape |-> shape, val |-> [l \in 1..Prod(shape) |-> v]]
Scalar(v) == Fill(<<>>, v)

IsPerm(perm, r) == Len(perm) = r /\ {perm[k] : k \in 1..Len(perm)} = 0..(r - 1)

\* tf.transpose(T, perm): axis k of the result is axis perm[k] of T (0-based).
Transpose(T, perm) ==
    IF IsErr(T) \/ ~IsPerm(perm, Len(T.shape)) THEN ErrT
    ELSE LET r == Len(perm)
             s == [k \in 1..r |-> T.shape[perm[k] + 1]]
             from(m) == CHOOSE k \in 1..r : perm[k] = m - 1
         IN  [shape |-> s,
              val |-> [l \in 1..Prod(s) |->
                          LET idx == Unlin(l - 1, s)
                          IN  At(T, [m \in 1..r |-> idx[from(m)]])]]

Insert(seq, pos, e) == SubSeq(seq, 1, pos - 1) \o <<e>> \o SubSeq(seq, pos, Len(seq))
Remove(seq, pos) == SubSeq(seq, 1, pos - 1) \o SubSeq(seq, pos + 1, Len(seq))

\* tf.reduce_sum(T, axis) (0-based axis); keep_dims keeps the axis with size 1.
ReduceSum(T, axis, keep_dims) ==
    IF IsErr(T) \/ axis < 0 \/ axis >= Len(T.shape) THEN ErrT
    ELSE LET a == axis + 1
             n == T.shape[a]
             s == IF keep_dims THEN [T.shape EXCEPT ![a] = 1] ELSE Remove(T.shape, a)
             at(idx, h) == IF keep_dims THEN [idx EXCEPT ![a] = h] ELSE Insert(idx, a, h)
         IN  [shape |-> s,
              val |-> [l \in 1..Prod(s) |-> LET idx == Unlin(l - 1, s) IN
                          SumSeq([h \in 1..n |-> At(T, at(idx, h))])]]

\* tf.expand_dims(T, axis), axis 0-based or negative from the end.
ExpandDims(T, axis) ==
    IF IsErr(T) THEN ErrT
    ELSE LET a == IF axis < 0 THEN Len(T.shape) + 2 + axis ELSE axis + 1
         IN  [shape |-> Insert(T.shape, a, 1),
              val |-> T.val]

\* tf.tile(T, multiples): a multiples list of another length than the rank fails.
Tile(T, multiples) ==
    IF IsErr(T) \/ Len(multiples) # Len(T.shape) THEN ErrT
    ELSE LET r == Len(T.shape)
             s == [k \in 1..r |-> T.shape[k] * multiples[k]]
         IN  [shape |-> s,
              val |-> [l \in 1..Prod(s) |-> LET idx == Unlin(l - 1, s) IN
                          At(T, [k \in 1..r |-> ((idx[k] - 1) % T.shape[k]) + 1])]]

\* tf.concat([A, B], axis): all axes but the concatenated one must agree.
Concat(A, B, axis) ==
    IF IsErr(A) \/ IsErr(B) \/ Len(A.shape) # Len(B.shape)
       \/ axis < 0 \/ axis >= Len(A.shape) THEN ErrT
    ELSE LET a == axis + 1
             s == [A.shape EXCEPT ![a] = A.shape[a] + B.shape[a]]
         IN  IF \E k \in 1..Len(A.shape) : k # a /\ A.shape[k] # B.shape[k] THEN ErrT
             ELSE [shape |-> s,
                   val |-> [l \in 1..Prod(s) |-> LET idx == Unlin(l - 1, s) IN
                               IF idx[a] <= A.shape[a] THEN At(A, idx)
                               ELSE At(B, [idx EXCEPT ![a] = idx[a] - A.shape[a]])]]

\* tf.split(T, [first, second], axis)[1]: the sizes must add up to the axis.
SplitSecond(T, first, second, axis) ==
    IF IsErr(T) \/ axis < 0 \/ axis >= Len(T.shape) THEN ErrT
    ELSE LET a == axis + 1
         IN  IF first + second # T.shape[a] \/ second < 1 THEN ErrT
             ELSE LET s == [T.shape EXCEPT ![a] = second]
                  IN  [shape |-> s,
                       val |-> [l \in 1..Prod(s) |-> LET idx == Unlin(l - 1, s) IN
                                   At(T, [idx EXCEPT ![a] = idx[a] + first])]]

RECURSIVE ISum(_)
ISum(ns) == IF ns = <<>> THEN 0 ELSE Head(ns) + ISum(Tail(ns))

\* The largest of a non-empty set of integers.
MaxOf(S) == CHOOSE m \in S : \A y \in S : y <= m

\* tf.nn.softmax(T, dim=axis): exp(x_j - max) / sum_k exp(x_k - max) along the
\* axis, kept as the quotient <<w_j, W>>.  A NaN or +infinity in a group, or
\* a group of -infinities only, makes the whole group NaN; a -infinity
\* beside finite logits has weight 0.
Softmax(T, axis) ==
    IF IsErr(T) \/ axis < 0 \/ axis >= Len(T.shape) THEN ErrT
    ELSE LET a == axis + 1
             n == T.shape[a]
             grp(idx) == [h \in 1..n |-> At(T, [idx EXCEPT ![a] = h])]
             q(g) == [h \in 1..n |-> Round(g[h][1], g[h][2])[1]]
             top(g) == MaxOf({q(g)[h] : h \in {k \in 1..n : Finite(g[k])}})
             weights(g, m) == [h \in 1..n |->
                                  IF Finite(g[h]) THEN ExpShifted(q(g)[h], m) ELSE 0]
             w(g) == weights(g, top(g))
         IN  [shape |-> T.shape,
              val |-> [l \in 1..Prod(T.shape) |-> LET idx == Unlin(l - 1, T.shape) IN
                          IF \/ \E h \in 1..n : grp(idx)[h] = NaN \/ grp(idx)[h] = Inf(1)
                             \/ \A h \in 1..n : ~Finite(grp(idx)[h])
                          THEN NaN
                          ELSE <<w(grp(idx))[idx[a]], ISum(w(grp(idx)))>>]]

\* tf.norm(T, axis, keep_dims=True): the Euclidean norm along the axis.
Norm(T, axis) ==
    IF IsErr(T) \/ axis < 0 \/ axis >= Len(T.shape) THEN ErrT
    ELSE LET a == axis + 1
             n == T.shape[a]
             s == [T.shape EXCEPT ![a] = 1]
             grp(idx) == [h \in 1..n |-> At(T, [idx EXCEPT ![a] = h])]
             sq(idx) == [h \in 1..n |->
                            LET q == Round(grp(idx)[h][1], grp(idx)[h][2])[1] IN q * q]
         IN  [shape |-> s,
              val |-> [l \in 1..Prod(s) |-> LET idx == Unlin(l - 1, s) IN
                          IF \E h \in 1..n : grp(idx)[h] = NaN THEN NaN
                          ELSE IF \E h \in 1..n : ~Finite(grp(idx)[h]) THEN Inf(1)
                          ELSE Fix(NSqrt(ISum(sq(idx))))]]

\* tf.reshape(T, newshape): one entry may be -1 and is then inferred; the
\* element counts must agree.
Reshape(T, newshape) ==
    IF IsErr(T) THEN ErrT
    ELSE LET holes == {k \in 1..Len(newshape) : newshape[k] = -1}
             known == Prod([k \in 1..Len(newshape) |->
                              IF newshape[k] = -1 THEN 1 ELSE newshape[k]])
             total == Prod(T.shape)
         IN  IF Cardinality(holes) > 1 \/ known < 1
                \/ \E k \in 1..Len(newshape) : newshape[k] < -1 \/ newshape[k] = 0
                \/ (holes = {} /\ known # total)
                \/ (holes # {} /\ total % known # 0)
             THEN ErrT
             ELSE LET s == [k \in 1..Len(newshape) |->
                               IF newshape[k] = -1 THEN total \div known
                               ELSE newshape[k]]
                  IN  [shape |-> s, val |-> T.val]

\* ------------------------------------------------------------ squash
\* _squash: (v / ||v||) * (||v||^2 / (1 + ||v||^2)) along axis 2.
\* The last line, given norm and norm_squared.
squash_return(in_tensor, norm, norm_squared) ==
    TMul(TDiv(in_tensor, norm), TDiv(norm_squared, TAdd(Scalar(One), norm_squared)))

squash_norm(in_tensor, norm) == squash_return(in_tensor, norm, TMul(norm, norm))

\* Faulty variant: the norm itself is returned, one number per capsule.
squash_norm_only(in_tensor) == Norm(in_tensor, 2)

squash(in_tensor) == squash_norm(in_tensor, Norm(in_tensor, 2))

\* ------------------------------------------------------------ leaky routing
\* _leaky_routing: softmax over the logits with one zero leak channel
\* prepended on axis 2; the leak channel's share is dropped.
leaky_routing(logits, out_dim) ==
    LET leak0 == Fill(logits.shape, Zero)
        leak == ReduceSum(leak0, 2, TRUE)
        leaky_logits == Concat(leak, logits, 2)
        leaky == Softmax(leaky_logits, 2)
    IN  SplitSecond(leaky, 1, out_dim, 2)

\* ------------------------------------------------------------ routing engine
\* The two axis permutations built at the top of _update_routing.
votes_t_shape(num_ranks) ==
    <<3, 0, 1, 2>> \o [k \in 1..(num_ranks - 4) |-> k + 3]

\* Faulty variant: the permutation of votes is used for the way back too.
r_t_shape_again(num_ranks) ==
    <<3, 0, 1, 2>> \o [k \in 1..(num_ranks - 4) |-> k + 3]

r_t_shape(num_ranks) ==
    <<1, 2, 3, 0>> \o [k \in 1..(num_ranks - 4) |-> k + 3]

\* tile_shape = np.ones(num_ranks).tolist(); tile_shape[1] = in_dim.  The
\* assignment to index 1 of a list shorter than 2 raises IndexError.
tile_shape(num_ranks, in_dim) ==
    IF num_ranks < 2 THEN ErrShape
    ELSE [k \in 1..num_ranks |-> IF k = 2 THEN in_dim ELSE 1]

\* route: the routing coefficients of one iteration.
Route(logits, a) ==
    IF a.leaky THEN leaky_routing(logits, a.out_dim) ELSE Softmax(logits, 2)

\* The activation of one iteration from its routing coefficients.
Activation(route, a) ==
    LET votes_trans == Transpose(a.votes, votes_t_shape(a.num_ranks))
        preact_unrolled == TMul(route, votes_trans)
        preact_trans == Transpose(preact_unrolled, r_t_shape(a.num_ranks))
        preactivate == TAdd(ReduceSum(preact_trans, 1, FALSE), a.biases)
    IN  squash(preactivate)

\* The agreement between the votes and an activation.
Replicate(act_3d, ts) == IF ts = ErrShape THEN ErrT ELSE Tile(act_3d, ts)

Distances(activation, a) ==
    LET act_3d == ExpandDims(activation, 1)
        act_replicated == Replicate(act_3d, tile_shape(a.num_ranks, a.in_dim))
    IN  ReduceSum(TMul(a.votes, act_replicated), 3, FALSE)

\* Faulty variant: logits = distances, the earlier agreement is lost.
UpdateLogits_overwrite(logits, distances) == distances

\* logits += distances
UpdateLogits(logits, distances) == TAdd(logits, distances)

\* _body: one pass of the routing loop over the loop variable logits, with the
\* function's arguments a.  error is the exception raised while the pass is
\* built: IndexError from tile_shape, ValueError from a tensor op whose shapes
\* do not fit or from tf.while_loop when the pass changes the shape of logits.
body_return(logits, a, route, activation, new_logits) ==
    [route |-> route,
     activation |-> activation,
     logits |-> new_logits,
     error |-> IF IsErr(activation) THEN "ValueError"
               ELSE IF tile_shape(a.num_ranks, a.in_dim) = ErrShape THEN "IndexError"
               ELSE IF IsErr(new_logits) \/ new_logits.shape # logits.shape
                    THEN "ValueError"
               ELSE "none"]

body_activation(logits, a, route, activation) ==
    body_return(logits, a, route, activation,
                UpdateLogits(logits, Distances(activation, a)))

body_route(logits, a, route) ==
    body_activation(logits, a, route, Activation(route, a))

body(logits, a) == body_route(logits, a, Route(logits, a))

\* Faulty variant: the logits start at one.
InitialLogits_ones(logit_shape) == Fill(logit_shape, One)

\* logits = tf.fill(logit_shape, 0.0)
InitialLogits(logit_shape) == Fill(logit_shape, Zero)

\* ------------------------------------------------------------ vote transforms
CeilDiv(n, d) == (n + d - 1) \div d

\* Output size and leading padding of one spatial axis of tf.nn.conv2d.
ConvOut(size, k, stride, padding) ==
    IF padding = "SAME" THEN CeilDiv(size, stride) ELSE CeilDiv(size - k + 1, stride)

ConvPad(size, k, stride, padding) ==
    IF padding = "SAME"
    THEN Max((CeilDiv(size, stride) - 1) * stride + k - size, 0) \div 2
    ELSE 0

\* tf.nn.conv2d(x, kernel, [1, 1, stride, stride], padding, 'NCHW'):
\* x is [N, C, H, W], kernel is [kh, kw, C, OC].
Conv2d(x, kernel, stride, padding) ==
    IF IsErr(x) \/ IsErr(kernel) \/ Len(x.shape) # 4 \/ Len(kernel.shape) # 4 THEN ErrT
    ELSE LET kh == kernel.shape[1]
             kw == kernel.shape[2]
             oh == ConvOut(x.shape[3], kh, stride, padding)
             ow == ConvOut(x.shape[4], kw, stride, padding)
             pt == ConvPad(x.shape[3], kh, stride, padding)
             pl == ConvPad(x.shape[4], kw, stride, padding)
             taps == <<kh, kw, kernel.shape[3]>>
             s == <<x.shape[1], kernel.shape[4], oh, ow>>
             term(idx, t) ==
                 LET y == (idx[3] - 1) * stride + t[1] - pt
                     z == (idx[4] - 1) * stride + t[2] - pl
                 IN  IF y < 1 \/ y > x.shape[3] \/ z < 1 \/ z > x.shape[4] THEN Zero
                     ELSE NMul(At(x, <<idx[1], t[3], y, z>>),
                               At(kernel, <<t[1], t[2], t[3], idx[2]>>))
         IN  IF x.shape[2] # kernel.shape[3] \/ stride < 1 \/ oh < 1 \/ ow < 1 THEN ErrT
             ELSE [shape |-> s,
                   val |-> [l \in 1..Prod(s) |-> LET idx == Unlin(l - 1, s) IN
                               SumSeq([t \in 1..Prod(taps) |->
                                          term(idx, Unlin(t - 1, taps))])]]

\* conv_reshaped: the convolution output split into its six axes.
conv_reshaped(conv, in_shape, in_dim, out_dim, out_atoms) ==
    IF IsErr(conv) THEN ErrT
    ELSE Reshape(conv, <<in_shape[1], in_dim, out_dim, out_atoms,
                         conv.shape[3], conv.shape[4]>>)

\* _depthwise_conv3d: the votes of a convolutional capsule layer, rank 6.
depthwise_conv3d(in_tensor, in_dim, in_atoms, out_dim, out_atoms, kernel, stride, padding) ==
    IF IsErr(in_tensor) \/ Len(in_tensor.shape) # 5 THEN ErrT
    ELSE LET in_shape == in_tensor.shape
             in_tensor_reshaped ==
                 Reshape(in_tensor, <<in_shape[1] * in_dim, in_atoms, in_shape[4], in_shape[5]>>)
         IN  conv_reshaped(Conv2d(in_tensor_reshaped, kernel, stride, padding),
                           in_shape, in_dim, out_dim, out_atoms)

\* The dense vote transform of capsule: [b, d, c] @ [d, c, o_c] = [b, d, o_c],
\* reshaped to [b, in_dim, out_dim, out_atoms].
dense_votes(in_tensor, weights, in_dim, out_dim, out_atoms) ==
    LET in_tiled == Tile(ExpandDims(in_tensor, -1), <<1, 1, 1, out_dim * out_atoms>>)
        votes == ReduceSum(TMul(in_tiled, weights), 2, FALSE)
    IN  Reshape(votes, <<-1, in_dim, out_dim, out_atoms>>)

\* The rank the layer assemblers pass to _update_routing as num_ranks.
capsule_num_ranks == 1
conv_slim_capsule_num_ranks == 6

\* ------------------------------------------------------------ inputs
\* Test values: value number l (row-major, 0-based) of a tensor filled by
\* pattern p, in units of 1/Scale.
PatVal(p, l) ==
    CASE p = "zero" -> 0
      [] p = "one" -> Scale
      [] p = "tenth" -> Scale \div 10
      [] p = "mix" -> (((l * 3 + 1) % 5) - 2) * (Scale \div 2)
      [] OTHER -> 0

Pat(shape, p) ==
    [shape |-> shape, val |-> [l \in 1..Prod(shape) |-> Fix(PatVal(p, l - 1))]]

\* variables.weight_variable(shape) and variables.bias_variable(shape): a
\* parameter tensor of the shape asked for.
weight_variable(shape, p) == Pat(shape, p)
bias_variable(shape, p) == Pat(shape, p)

\* ------------------------------------------------------------ state
VARIABLES
    visual,       \* the graph collection 'visual': the tensors registered, in order
    ncalls,       \* layer calls made on this graph
    graph,        \* the routing loops built on this graph, in order of their calls
    pc,           \* "idle"; "built" (the last call has returned its tensor);
                  \* "run" (a loop is being run); "done"; "failed"
    call,         \* the arguments of the last call or, in a run, of the loop run
    i,            \* the loop counter
    logits,       \* the loop variable logits
    activations,  \* the TensorArray: one slot per iteration
    written,      \* how often each slot was written
    route,        \* the routing coefficients of the last iteration
    ret,          \* the tensor the call returned: a read of a slot
    result,       \* the value of the returned tensor once its loop has run
    error,        \* "none", or the exception that ended the call or the run
    input_pc,     \* svhn inputs: "idle", "built", "end" (dataset exhausted), "failed"
    specs,        \* the dataset specifications inputs returned
    dataset,      \* the batched dataset inputs returned
    served,       \* elements of the dataset consumed so far
    batch         \* the batch the dataset yielded last

layer_vars == <<visual, ncalls, graph, pc, call, i, logits, activations, written, route, ret,
                result, error>>
input_vars == <<input_pc, specs, dataset, served, batch>>
vars == <<layer_vars, input_vars>>

Unset == [shape |-> <<0>>, val |-> <<>>]
NoCall == [layer |-> "none"]
NoRead == [call |-> 0, kind |-> "none", slot |-> 0]
NoSpecs == [split |-> "none"]
NoDataset == [elements |-> 0]
NoBatch == [images |-> <<>>, labels |-> <<>>]
Read(id, k) == [call |-> id, kind |-> "activation", slot |-> k]
Votes(id) == [call |-> id, kind |-> "votes", slot |-> 0]

Init ==
    /\ visual = <<>>
    /\ ncalls = 0
    /\ graph = <<>>
    /\ pc = "idle"
    /\ call = NoCall
    /\ i = 0
    /\ logits = Unset
    /\ activations = <<>>
    /\ written = <<>>
    /\ route = Unset
    /\ ret = NoRead
    /\ result = Unset
    /\ error = "none"
    /\ input_pc = "idle"
    /\ specs = NoSpecs
    /\ dataset = NoDataset
    /\ served = 0
    /\ batch = NoBatch

\* Faulty variant: the reads replace what the collection held.
RegisterReads_replace(vis, id, num_routing) ==
    [k \in 1..num_routing |-> Read(id, k - 1)]

\* for i in range(num_routing): tf.add_to_collection('visual', activations.read(i))
RegisterReads(vis, id, num_routing) ==
    vis \o [k \in 1..num_routing |-> Read(id, k - 1)]

\* tf.add_to_collection('visual', conv_reshaped)
RegisterVotes(vis, id) == Append(vis, Votes(id))

\* Faulty variant: the first slot is returned.
Returned_first(id, num_routing) == Read(id, 0)

\* return activations.read(num_routing - 1)
Returned(id, num_routing) == Read(id, num_routing - 1)

\* tf.TensorArray(dtype=tf.float32, size=num_routing, clear_after_read=False)
TensorArray(size) == [k \in 1..size |-> Unset]

\* No loop is being run: a layer can be built, or a built loop run.
Idle == pc # "run"

\* The call is entered with arguments c.
Enter(c) ==
    /\ Idle
    /\ ncalls' = ncalls + 1
    /\ call' = c
    /\ i' = 0
    /\ route' = Unset
    /\ result' = Unset
    /\ UNCHANGED input_vars

\* The call ends with exception e, having registered vis.
Fail(e, vis) ==
    /\ pc' = "failed"
    /\ error' = e
    /\ visual' = vis
    /\ graph' = graph
    /\ ret' = NoRead
    /\ logits' = Unset
    /\ activations' = <<>>
    /\ written' = <<>>

\* The loop of call c before its first pass: the loop variables as built.
LoopEntry(c) ==
    /\ ret' = Returned(c.id, c.num_routing)
    /\ logits' = InitialLogits(c.logit_shape)
    /\ activations' = TensorArray(c.num_routing)
    /\ written' = [k \in 1..c.num_routing |-> 0]

\* _update_routing: the call builds the graph and runs nothing.  The loop
\* body is built once by tf.while_loop, which raises what the body raises
\* (built_error); then the reads are registered and the last one returned.
update_routing_built(c, vis, built_error) ==
    IF built_error # "none"
    THEN Fail(built_error, vis)
    ELSE /\ pc' = "built"
         /\ error' = "none"
         /\ visual' = RegisterReads(vis, c.id, c.num_routing)
         /\ graph' = Append(graph, c)
         /\ LoopEntry(c)

update_routing(c, vis) ==
    update_routing_built(c, vis, body(InitialLogits(c.logit_shape), c).error)

\* A layer call with the arguments c it hands to _update_routing; the vote
\* transform may have failed before.
Layer(c, vis) ==
    /\ Enter(c)
    /\ IF IsErr(c.votes) THEN Fail("ValueError", visual)
       ELSE update_routing(c, vis)

\* capsule(in_tensor, in_dim, in_atoms, out_dim, out_atoms, layer_name,
\*         leaky, num_routing), with the patterns wp, bp of its parameters.
capsule_routing(in_tensor, votes_reshaped, biases, in_dim, out_dim, leaky, num_routing) ==
    Layer([layer |-> "capsule", id |-> ncalls + 1,
           votes |-> votes_reshaped, biases |-> biases,
           logit_shape |-> <<in_tensor.shape[1], in_dim, out_dim>>,
           num_ranks |-> capsule_num_ranks,
           in_dim |-> in_dim, out_dim |-> out_dim,
           leaky |-> leaky, num_routing |-> num_routing],
          visual)

capsule(in_tensor, in_dim, in_atoms, out_dim, out_atoms, wp, bp, leaky, num_routing) ==
    LET weights == weight_variable(<<in_dim, in_atoms, out_dim * out_atoms>>, wp)
        biases == bias_variable(<<out_dim, out_atoms>>, bp)
    IN  capsule_routing(in_tensor,
                        dense_votes(in_tensor, weights, in_dim, out_dim, out_atoms),
                        biases, in_dim, out_dim, leaky, num_routing)

\* conv_slim_capsule(in_tensor, in_dim, in_atoms, out_dim, out_atoms,
\*                   layer_name, kernel_size, stride, padding, leaky, num_routing)
conv_slim_capsule_routing(in_tensor, votes, biases, in_dim, out_dim, leaky, num_routing) ==
    Layer([layer |-> "conv_slim_capsule", id |-> ncalls + 1,
           votes |-> votes,
           biases |-> IF IsErr(votes) THEN Unset
                      ELSE Tile(biases, <<1, 1, votes.shape[5], votes.shape[6]>>),
           logit_shape |-> IF IsErr(votes) THEN <<>>
                           ELSE <<in_tensor.shape[1], in_dim, out_dim,
                                  votes.shape[5], votes.shape[6]>>,
           num_ranks |-> conv_slim_capsule_num_ranks,
           in_dim |-> in_dim, out_dim |-> out_dim,
           leaky |-> leaky, num_routing |-> num_routing],
          RegisterVotes(visual, ncalls + 1))

conv_slim_capsule(in_tensor, in_dim, in_atoms, out_dim, out_atoms, kp, bp, kernel_size, stride, padding, leaky, num_routing) ==
    LET kernel == weight_variable(<<kernel_size, kernel_size, in_atoms,
                                    out_dim * out_atoms>>, kp)
        biases == bias_variable(<<out_dim, out_atoms, 1, 1>>, bp)
    IN  conv_slim_capsule_routing(
            in_tensor,
            depthwise_conv3d(in_tensor, in_dim, in_atoms, out_dim, out_atoms,
                             kernel, stride, padding),
            biases, in_dim, out_dim, leaky, num_routing)

\* _update_routing called with votes, biases and sizes of the caller's own;
\* logit_shape is made of the sizes given, as both layers make it.
call_update_routing(votes, biases, num_ranks, in_dim, out_dim, leaky, num_routing) ==
    Layer([layer |-> "_update_routing", id |-> ncalls + 1,
           votes |-> votes, biases |-> biases,
           logit_shape |-> <<votes.shape[1], in_dim, out_dim>>
                           \o SubSeq(votes.shape, 5, Len(votes.shape)),
           num_ranks |-> num_ranks,
           in_dim |-> in_dim, out_dim |-> out_dim,
           leaky |-> leaky, num_routing |-> num_routing],
          visual)

\* The tensor a built layer returned is evaluated: its loop is run from its
\* first pass, whatever was built or run before.
Run(k) ==
    /\ Idle
    /\ k \in 1..Len(graph)
    /\ pc' = "run"
    /\ call' = graph[k]
    /\ error' = "none"
    /\ i' = 0
    /\ route' = Unset
    /\ result' = Unset
    /\ LoopEntry(graph[k])
    /\ UNCHANGED <<visual, ncalls, graph>>
    /\ UNCHANGED input_vars

SessionRun == \E k \in 1..Len(graph) : Run(k)

\* What one pass leaves behind: activations.write(i, activation), logits.
LoopPass(pass) ==
    /\ route' = pass.route
    /\ activations' = [activations EXCEPT ![i + 1] = pass.activation]
    /\ written' = [written EXCEPT ![i + 1] = @ + 1]
    /\ logits' = pass.logits

\* One pass of the routing loop: lambda i, logits, activations: i < num_routing
LoopBody ==
    /\ pc = "run"
    /\ i < call.num_routing
    /\ LoopPass(body(logits, call))
    /\ i' = i + 1
    /\ UNCHANGED <<visual, ncalls, graph, pc, call, ret, result, error>>
    /\ UNCHANGED input_vars

\* The loop is over; the returned tensor, activations.read(num_routing - 1),
\* is evaluated.  Reading a slot that does not exist or was never written
\* fails when the graph runs.
LoopExit ==
    /\ pc = "run"
    /\ ~(i < call.num_routing)
    /\ IF ret.slot \in 0..(Len(activations) - 1) /\ written[ret.slot + 1] > 0
       THEN /\ result' = activations[ret.slot + 1]
            /\ pc' = "done"
            /\ error' = "none"
       ELSE /\ result' = Unset
            /\ pc' = "failed"
            /\ error' = "InvalidArgumentError"
    /\ UNCHANGED <<visual, ncalls, graph, call, i, logits, activations, written, route, ret>>
    /\ UNCHANGED input_vars

\* ------------------------------------------------------------ the calls made
Dims == 1..2
RoutingArgs == 0..MaxRouting
InputPatterns == {"zero", "mix"}
BiasPatterns == {"zero", "tenth"}
\* Input height and width, kernel size, stride and padding of the conv calls.
Geometry ==
    {[h |-> 2, w |-> 1, k |-> 1, stride |-> 1, padding |-> "VALID"],
     [h |-> 3, w |-> 2, k |-> 2, stride |-> 2, padding |-> "SAME"],
     [h |-> 2, w |-> 2, k |-> 2, stride |-> 1, padding |-> "VALID"],
     [h |-> 1, w |-> 1, k |-> 2, stride |-> 1, padding |-> "VALID"]}

CallCapsule ==
    \E in_dim \in Dims, out_dim \in Dims, bp \in BiasPatterns, leaky \in BOOLEAN,
       num_routing \in RoutingArgs :
        capsule(Pat(<<1, in_dim, 2>>, "mix"), in_dim, 2, out_dim, 2,
                "mix", bp, leaky, num_routing)

CallConvSlimCapsule ==
    \E in_dim \in Dims, out_dim \in Dims, g \in Geometry,
       ip \in InputPatterns, bp \in BiasPatterns, leaky \in BOOLEAN,
       num_routing \in RoutingArgs :
        conv_slim_capsule(Pat(<<1, in_dim, 1, g.h, g.w>>, ip), in_dim, 1,
                          out_dim, 2, "mix", bp, g.k, g.stride, g.padding,
                          leaky, num_routing)

\* Bias shapes handed to _update_routing: the shape of one activation, a
\* shape that broadcasts to it, and a shape that does not.
BiasShapes(out_dim, out_atoms) ==
    {<<out_dim, out_atoms>>, <<1, out_atoms>>, <<out_dim + 1, out_atoms>>}

CallUpdateRouting ==
    \E vin \in Dims, vout \in Dims, in_dim \in Dims, out_dim \in Dims,
       vp \in InputPatterns, bp \in BiasPatterns, leaky \in BOOLEAN,
       num_routing \in RoutingArgs :
        \E bs \in BiasShapes(vout, 2) :
            call_update_routing(Pat(<<1, vin, vout, 2>>, vp), Pat(bs, bp),
                                4, in_dim, out_dim, leaky, num_routing)

Next ==
    \/ ncalls < 1 /\ CallCapsule
    \/ ncalls < 1 /\ CallConvSlimCapsule
    \/ ncalls < 1 /\ CallUpdateRouting
    \/ SessionRun
    \/ LoopBody
    \/ LoopExit

\* One layer call, and runs of what it built.
Spec == Init /\ [][Next]_vars

\* A run that has begun carries the loop to its end.
\* This is weak fairness of LoopBody and of LoopExit, WF_vars(A) written as
\* []<>~ENABLED <<A>>_vars \/ []<><<A>>_vars with ENABLED spelt out: each
\* action is enabled exactly when its guard holds.
LoopBodyEnabled == pc = "run" /\ i < call.num_routing
LoopExitEnabled == pc = "run" /\ ~(i < call.num_routing)

LiveSpec ==
    /\ Spec
    /\ ([]<>~LoopBodyEnabled \/ []<><<LoopBody>>_vars)
    /\ ([]<>~LoopExitEnabled \/ []<><<LoopExit>>_vars)

\* Several layers built on one graph, one after the other, run or not in
\* between.
SeqCallCapsule ==
    \E in_dim \in Dims, leaky \in BOOLEAN :
        capsule(Pat(<<1, in_dim, 2>>, "mix"), in_dim, 2, 1, 2, "mix", "tenth", leaky, 1)

SeqCallConvSlimCapsule ==
    \E leaky \in BOOLEAN, num_routing \in RoutingArgs :
        conv_slim_capsule(Pat(<<1, 1, 1, 2, 1>>, "mix"), 1, 1, 2, 2, "mix", "tenth",
                          1, 1, "VALID", leaky, num_routing)

\* A kernel larger than the image: the convolution cannot be built.
SeqCallConvTooSmall ==
    conv_slim_capsule(Pat(<<1, 1, 1, 1, 1>>, "mix"), 1, 1, 2, 2, "mix", "tenth",
                      2, 1, "VALID", FALSE, 1)

CallsNext ==
    \/ ncalls < MaxCalls /\ SeqCallCapsule
    \/ ncalls < MaxCalls /\ SeqCallConvSlimCapsule
    \/ ncalls < MaxCalls /\ SeqCallConvTooSmall
    \/ SessionRun
    \/ LoopBody
    \/ LoopExit

SpecCalls == Init /\ [][CallsNext]_vars

\* ------------------------------------------------------------ properties
\* The loop of call has been built: it is in the graph, whether it has been
\* run or not and however its run ended.
Built == \E k \in 1..Len(graph) : graph[k] = call

\* The trailing spatial axes of the votes of call c.
Spatial(c) == SubSeq(c.votes.shape, 5, Len(c.votes.shape))

\* [batch, out_dim, out_atoms] followed by the spatial axes.
ActivationShape(c) == <<c.votes.shape[1], c.out_dim, c.votes.shape[4]>> \o Spatial(c)

\* The arguments of call c keep the shape contract of _update_routing.
WellShaped(c) ==
    /\ c.votes.shape[2] = c.in_dim
    /\ c.votes.shape[3] = c.out_dim
    /\ c.biases.shape = <<c.out_dim, c.votes.shape[4]>> \o Spatial(c)

AllFinite(T) == \A l \in 1..Len(T.val) : Finite(T.val[l])
AllZero(T) == \A l \in 1..Len(T.val) : Finite(T.val[l]) /\ T.val[l][1] = 0

\* Every number of T is 1/parts.
AllOneIn(T, parts) ==
    \A l \in 1..Len(T.val) : Finite(T.val[l]) /\ T.val[l][1] * parts = T.val[l][2]

\* The entries of the collection that are reads of call id.
ReadsOf(vis, id) ==
    SelectSeq(vis, LAMBDA e : e.call = id /\ e.kind = "activation")

AllReads(id, n) == [k \in 1..n |-> Read(id, k - 1)]

\* C1: a capsule call with num_routing >= 1 builds without error, routes with
\* the rank-4 tile shape [1, in_dim, 1, 1], and yields an activation of shape
\* [batch, out_dim, out_atoms].
C1_CapsuleBuilds ==
    (call.layer = "capsule" /\ call.num_routing >= 1) =>
        /\ pc # "failed"
        /\ tile_shape(call.num_ranks, call.in_dim) = <<1, call.in_dim, 1, 1>>
        /\ (pc = "done" => result.shape = ActivationShape(call))

\* C2: for num_routing >= 1 the loop counter runs 0..num_routing, the slots
\* 0..i-1 are written exactly once and the others not yet, each pass writes
\* slot i only, the reads of the slots are in the collection in iteration
\* order, the returned tensor is the read of slot num_routing-1, and the run
\* ends with every slot written and that slot's activation as the result.
C2_Slots ==
    (call.layer # "none" /\ call.num_routing >= 1 /\ Built) =>
        /\ i \in 0..call.num_routing
        /\ Len(activations) = call.num_routing
        /\ \A k \in 1..call.num_routing : written[k] = IF k <= i THEN 1 ELSE 0
        /\ \A k \in 1..call.num_routing : (activations[k] # Unset) <=> (k <= i)
        /\ ReadsOf(visual, call.id) = AllReads(call.id, call.num_routing)
        /\ ret = Read(call.id, call.num_routing - 1)
        /\ (pc = "done" => /\ i = call.num_routing
                           /\ result = activations[call.num_routing])

C2_Pass ==
    (pc = "run" /\ pc' = "run" /\ call.num_routing >= 1) =>
        /\ i' = i + 1
        /\ \A k \in 1..call.num_routing : k # i + 1 => activations'[k] = activations[k]

\* C2: the slot bookkeeping always holds, every pass writes its own slot only,
\* and a loop with num_routing >= 1 ends after num_routing passes.
C2_Routing ==
    /\ []C2_Slots
    /\ [][C2_Pass]_vars
    /\ ((pc = "run" /\ call.num_routing >= 1) ~> (pc = "done" /\ i = call.num_routing))

C2_Witness ==
    /\ pc = "done"
    /\ call.num_routing = 2
    /\ i = 2
    /\ written = <<1, 1>>
    /\ result = activations[2]
    /\ activations[1] # activations[2]

\* C3 as stated: no call changes the collection 'visual': after every call
\* that has ended it holds what it held before the first call.
C3_VisualUnchanged == Idle => visual = <<>>

\* C3 amended: a step never changes or removes an entry of the collection;
\* building a layer appends the layer's own tensors only (the votes of a
\* convolutional layer once they are built, then one read per iteration in order, nothing if the
\* routing could not be built), running a graph appends nothing, and every
\* routing loop that is built starts from all-zero logits.
C3_Step ==
    /\ SubSeq(visual', 1, Len(visual)) = visual
    /\ (ncalls' = ncalls => visual' = visual)
    /\ (ncalls' # ncalls =>
            visual' = visual
                      \o (IF call'.layer = "conv_slim_capsule" /\ ~IsErr(call'.votes)
                          THEN <<Votes(call'.id)>> ELSE <<>>)
                      \o (IF pc' = "built"
                          THEN AllReads(call'.id, call'.num_routing) ELSE <<>>))
    /\ ((ncalls' # ncalls /\ pc' = "built") =>
            /\ logits'.shape = call'.logit_shape
            /\ AllZero(logits'))

\* C3 amended: every step keeps the collection append-only as C3_Step says.
C3_AppendOnly == [][C3_Step]_vars

C3_Witness ==
    /\ ncalls = 2
    /\ pc = "done"
    /\ call.num_routing = 2
    /\ Len(visual) = 6
    /\ visual[1] = Votes(1)
    /\ visual[4] = Votes(2)

\* C4: a call with num_routing < 1 ends in an error while the graph is built:
\* no loop is built, no read is registered and nothing is returned.
C4_RejectedAtConstruction ==
    (call.layer # "none" /\ call.num_routing < 1) =>
        /\ pc = "failed"
        /\ error # "InvalidArgumentError"
        /\ ret = NoRead
        /\ ReadsOf(visual, call.id) = <<>>

\* C5: no activation the loop writes holds a non-finite number; with all
\* votes and biases zero (a zero pre-activation) the activation is zero.
C5_SquashDefined ==
    \A k \in 1..Len(activations) :
        written[k] > 0 =>
            /\ AllFinite(activations[k])
            /\ (AllZero(call.votes) /\ AllZero(call.biases)
                    => AllZero(activations[k]))

\* The coefficients of route over the out_dim output capsules, at index idx.
Coefficients(idx) == [h \in 1..route.shape[3] |-> At(route, [idx EXCEPT ![3] = h])]

\* C6: after every iteration the coefficients over the output capsules are
\* non-negative and sum to 1 without the leak channel, and to more than 0 and
\* less than 1 with it.
C6_Coefficients ==
    (Built /\ i >= 1) =>
        \A l \in 1..Len(route.val) :
            LET co == Coefficients(Unlin(l - 1, route.shape))
                d == co[1][2]
                total == ISum([h \in 1..Len(co) |-> co[h][1]])
            IN  /\ d > 0
                /\ \A h \in 1..Len(co) : co[h][2] = d /\ co[h][1] >= 0
                /\ IF call.leaky THEN 0 < total /\ total < d ELSE total = d

\* squash(sum over input capsules of coefficient * vote + bias) with every
\* coefficient 1/parts.
UniformSum(c, parts, idx) ==
    NAdd(SumSeq([n \in 1..c.in_dim |->
                    NMul(<<1, parts>>,
                         At(c.votes, <<idx[1], n, idx[2], idx[3]>>
                                     \o SubSeq(idx, 4, Len(idx))))]),
         At(c.biases, Tail(idx)))

UniformActivation(c, parts) ==
    squash([shape |-> ActivationShape(c),
            val |-> [l \in 1..Prod(ActivationShape(c)) |->
                        UniformSum(c, parts, Unlin(l - 1, ActivationShape(c)))]])

Parts(c) == IF c.leaky THEN c.out_dim + 1 ELSE c.out_dim

\* C7: the loop starts from all-zero logits; the coefficients of the first
\* iteration all equal 1/out_dim, or 1/(out_dim+1) with the leak channel; and
\* with num_routing = 1 the result is the squashed uniform sum plus bias.
C7_Uniform ==
    Built =>
        /\ (i = 0 => AllZero(logits))
        /\ (i = 1 => /\ route.shape = call.logit_shape
                     /\ AllOneIn(route, Parts(call)))
        /\ ((pc = "done" /\ call.num_routing = 1 /\ WellShaped(call)) =>
                result = UniformActivation(call, Parts(call)))

C7_Witness ==
    /\ pc = "done"
    /\ call.num_routing = 1
    /\ call.leaky
    /\ call.out_dim = 2
    /\ call.in_dim = 2
    /\ WellShaped(call)
    /\ AllOneIn(route, 3)
    /\ AllFinite(result)
    /\ ~AllZero(result)

\* C8: a call whose bias has not the shape of one activation, or whose in_dim
\* or out_dim differs from the votes' axes, does not get built.
C8_FailFast == Built => WellShaped(call)

\* C9: every activation written, and the result, has the shape [batch,
\* out_dim, out_atoms] followed by the votes' spatial axes, whatever
\* num_routing and leaky are; in conv_slim_capsule the bias is
\* [out_dim, out_atoms, out_H, out_W] and the logits are
\* [batch, in_dim, out_dim, out_H, out_W] at every iteration.
C9_Shapes ==
    Built =>
        /\ \A k \in 1..Len(activations) :
               written[k] > 0 => activations[k].shape = ActivationShape(call)
        /\ (pc = "done" /\ call.num_routing >= 1 => result.shape = ActivationShape(call))
        /\ (call.layer = "conv_slim_capsule" =>
                /\ Len(call.votes.shape) = 6
                /\ call.biases.shape = <<call.out_dim, call.votes.shape[4],
                                         call.votes.shape[5], call.votes.shape[6]>>
                /\ logits.shape = <<call.votes.shape[1], call.in_dim, call.out_dim,
                                    call.votes.shape[5], call.votes.shape[6]>>)

C9_Witness ==
    /\ pc = "done"
    /\ call.layer = "conv_slim_capsule"
    /\ call.num_routing = 2
    /\ call.leaky
    /\ call.in_dim = 2
    /\ result.shape = <<1, 2, 2, 2, 1>>
    /\ call.biases.shape = <<2, 2, 2, 1>>
    /\ logits.shape = <<1, 2, 2, 2, 1>>

\* The atom-wise dot product of every vote of call c with activation act.
Dot(c, act, idx) ==
    SumSeq([a \in 1..c.votes.shape[4] |->
               NMul(At(c.votes, <<idx[1], idx[2], idx[3], a>> \o SubSeq(idx, 4, Len(idx))),
                    At(act, <<idx[1], idx[3], a>> \o SubSeq(idx, 4, Len(idx))))])

Agreement(c, act) ==
    [shape |-> c.logit_shape,
     val |-> [l \in 1..Prod(c.logit_shape) |->
                 Dot(c, act, Unlin(l - 1, c.logit_shape))]]

\* C10: after i iterations every logit is the sum, over the iterations so
\* far, of the dot product of the original vote with that iteration's
\* activation.
C10_Accumulate ==
    (Built /\ WellShaped(call)) =>
        /\ logits.shape = call.logit_shape
        /\ \A l \in 1..Len(logits.val) :
               logits.val[l] =
                   SumSeq([t \in 1..i |-> Agreement(call, activations[t]).val[l]])

C10_Witness ==
    /\ pc = "done"
    /\ call.num_routing = 2
    /\ WellShaped(call)
    /\ i = 2
    /\ AllFinite(logits)
    /\ Agreement(call, activations[1]) # Agreement(call, activations[2])
    /\ ~AllZero(Agreement(call, activations[1]))
    /\ logits # Agreement(call, activations[2])

\* ------------------------------------------------------------ votes of any rank
\* Sizes of n trailing spatial axes, different where the tensors stay small.
SpatialSizes(n) == [k \in 1..n |-> IF k <= 2 THEN k + 1 ELSE 1]

\* _update_routing on votes [1, in_dim, out_dim, 2, spatial...] of rank
\* num_ranks, with biases and logit_shape to match.
CallRanked ==
    \E num_ranks \in 4..MaxRank, in_dim \in Dims, out_dim \in Dims,
       leaky \in BOOLEAN, num_routing \in 1..MaxRouting :
        call_update_routing(
            Pat(<<1, in_dim, out_dim, 2>> \o SpatialSizes(num_ranks - 4), "mix"),
            Pat(<<out_dim, 2>> \o SpatialSizes(num_ranks - 4), "tenth"),
            num_ranks, in_dim, out_dim, leaky, num_routing)

RanksNext ==
    \/ ncalls < 1 /\ CallRanked
    \/ SessionRun
    \/ LoopBody
    \/ LoopExit

SpecRanks == Init /\ [][RanksNext]_vars

\* Permutation p after permutation q: transposing by q and then by p.
Compose(q, p) == [k \in 1..Len(p) |-> q[p[k] + 1]]

IdentityPerm(r) == [k \in 1..r |-> k - 1]

\* C11: for votes of rank num_ranks >= 4, votes_t_shape and r_t_shape are
\* permutations inverse to each other; votes_t_shape puts the atoms axis
\* first and keeps [batch, in, out, spatial...] in order, so that the
\* coefficients broadcast against it; r_t_shape applied afterwards restores
\* the votes, axes and values; axis 2 of the coefficients is the out-capsule
\* axis and axis 1 of the restored product the in-capsule axis.
C11_InversePermutations ==
    (call.layer = "_update_routing" /\ call.num_ranks >= 4
     /\ call.num_ranks = Len(call.votes.shape)) =>
        LET vt == votes_t_shape(call.num_ranks)
            rt == r_t_shape(call.num_ranks)
            votes_trans == Transpose(call.votes, vt)
        IN  /\ IsPerm(vt, call.num_ranks) /\ IsPerm(rt, call.num_ranks)
            /\ Compose(vt, rt) = IdentityPerm(call.num_ranks)
            /\ Compose(rt, vt) = IdentityPerm(call.num_ranks)
            /\ votes_trans.shape = <<call.votes.shape[4], call.votes.shape[1],
                                     call.votes.shape[2], call.votes.shape[3]>>
                                   \o Spatial(call)
            /\ BroadcastShape(call.logit_shape, votes_trans.shape) = votes_trans.shape
            /\ Transpose(votes_trans, rt).shape = call.votes.shape
            /\ Transpose(votes_trans, rt).val = call.votes.val
            /\ (Built /\ i >= 1 =>
                    /\ route.shape[3] = call.out_dim
                    /\ Transpose(TMul(route, votes_trans), rt).shape[2] = call.in_dim)

C11_Witness ==
    /\ pc = "done"
    /\ call.layer = "_update_routing"
    /\ call.num_ranks = 6
    /\ call.votes.shape = <<1, 2, 1, 2, 2, 3>>
    /\ Transpose(call.votes, votes_t_shape(6)).shape = <<2, 1, 2, 1, 2, 3>>
    /\ Transpose(call.votes, votes_t_shape(6)).val # call.votes.val
    /\ result.shape = <<1, 1, 2, 2, 3>>
    /\ AllFinite(result)

\* ------------------------------------------------------------ svhn input
\* (input_data/svhn/svhn_input.py)  Images and batches are modelled by their
\* shapes; where a crop is taken from does not enter the shape.
raw_image_size == 32
cropped_size == 24
depth == 3
num_classes == 10
specs_image_size_first == 32
specs_image_size_last == 24

Min(a, b) == IF a <= b THEN a ELSE b

\* load_svhn_data.load_svhn(data_dir, split): total_size images
\* (?, 32, 32, 3) and labels (?, 1).
load_svhn(total_size) ==
    [images |-> <<total_size, raw_image_size, raw_image_size, depth>>,
     labels |-> <<total_size, 1>>]

\* tf.random_crop(image, [h, w, c]): fails on an image smaller than the crop.
random_crop(image, size) ==
    IF \E k \in 1..Len(size) : image[k] < size[k] THEN ErrShape ELSE size

\* tf.image.resize_image_with_crop_or_pad(image, h, w): the centre, cropped
\* or zero padded to [h, w], channels kept.
resize_image_with_crop_or_pad(image, h, w) == <<h, w, image[3]>>

\* _single_process(image, label, specs): the shapes of the feature of one
\* image; tf.one_hot(label, 10) appends the class axis to the label's shape.
single_process(image, label, sp) ==
    LET processed ==
            IF sp.distort
            THEN IF sp.split = "train"
                 THEN random_crop(image, <<cropped_size, cropped_size, 3>>)
                 ELSE IF sp.split = "test"
                      THEN resize_image_with_crop_or_pad(image, cropped_size, cropped_size)
                      ELSE image
            ELSE image
    IN  [image |-> <<processed[3], processed[1], processed[2]>>,
         label |-> label \o <<10>>]

\* _feature_process(feature) on a batch of n features.
feature_process(feature, n) ==
    [images |-> <<n>> \o feature.image, labels |-> <<n>> \o feature.label]

\* The specs dictionary as first built, with total_size images loaded.
InitialSpecs(total_batch_size, num_gpus, max_epochs, split, distort, total_size) ==
    [split |-> split,
     total_size |-> total_size,
     steps_per_epoch |-> total_size \div total_batch_size,
     total_batch_size |-> total_batch_size,
     num_gpus |-> num_gpus,
     batch_size |-> total_batch_size \div num_gpus,
     max_epochs |-> max_epochs,
     image_size |-> specs_image_size_first,
     depth |-> depth,
     num_classes |-> num_classes,
     distort |-> distort]

\* from_tensor_slices, repeat max_epochs, map _single_process, batch.
Dataset(loaded, sp) ==
    [elements |-> loaded.images[1] * sp.max_epochs,
     feature |-> single_process(Tail(loaded.images), Tail(loaded.labels), sp),
     batch_size |-> sp.batch_size]

\* inputs(total_batch_size, num_gpus, max_epochs, data_dir, split, distort)
\* with total_size images in the split.
inputs(total_batch_size, num_gpus, max_epochs, split, distort, total_size) ==
    /\ input_pc = "idle"
    /\ split = "train" \/ split = "test"
    /\ LET sp == InitialSpecs(total_batch_size, num_gpus, max_epochs, split,
                              distort, total_size)
       IN  /\ dataset' = Dataset(load_svhn(total_size), sp)
           /\ specs' = [sp EXCEPT !.image_size = specs_image_size_last]
    /\ input_pc' = "built"
    /\ served' = 0
    /\ batch' = NoBatch
    /\ UNCHANGED layer_vars

CallInputs ==
    \E total_batch_size \in 1..MaxBatch, num_gpus \in 1..MaxGpus,
       max_epochs \in 1..MaxEpochs, split \in {"train", "test"},
       distort \in BOOLEAN, total_size \in 1..MaxImages :
        inputs(total_batch_size, num_gpus, max_epochs, split, distort, total_size)

\* The next batch of the dataset: batch_size features, or those that are left.
\* A batch size of 0 fails when the dataset is read.
GetNext ==
    /\ input_pc = "built"
    /\ served < dataset.elements
    /\ IF dataset.batch_size < 1
       THEN /\ input_pc' = "failed"
            /\ UNCHANGED <<served, batch>>
       ELSE /\ batch' = feature_process(dataset.feature,
                                        Min(dataset.batch_size, dataset.elements - served))
            /\ served' = served + Min(dataset.batch_size, dataset.elements - served)
            /\ input_pc' = "built"
    /\ UNCHANGED <<specs, dataset>>
    /\ UNCHANGED layer_vars

\* The dataset is exhausted.
EndOfSequence ==
    /\ input_pc = "built"
    /\ served = dataset.elements
    /\ input_pc' = "end"
    /\ UNCHANGED <<specs, dataset, served, batch>>
    /\ UNCHANGED layer_vars

InputNext ==
    \/ CallInputs
    \/ GetNext
    \/ EndOfSequence

SpecInputs == Init /\ [][InputNext]_vars

\* C12: the specs inputs returns describe its data: image_size is 24 when
\* the crop is applied (distort) and 32 when it is not, every batch yielded
\* has images of image_size rows and columns, and batch_size * num_gpus is at
\* most total_batch_size.
C12_SpecsDescribeData ==
    input_pc # "idle" =>
        /\ specs.image_size = IF specs.distort THEN cropped_size ELSE raw_image_size
        /\ (batch # NoBatch =>
                /\ batch.images[3] = specs.image_size
                /\ batch.images[4] = specs.image_size)
        /\ specs.batch_size * specs.num_gpus <= specs.total_batch_size
====
